---- MODULE Spec2Model ----
(***************************************************************************)
(* Model of the log-to-issue classification pipeline of                    *)
(* EDF_Monitoring_Automation: helpers.py (Learning Store, classifier       *)
(* training and loading, Confidence Gate, keyword filter, issue            *)
(* synthesizer) and monitoring_app.py (process_category).                  *)
(*                                                                         *)
(* Text is modelled at character level: a Python str is a sequence of      *)
(* one-character strings, so that lower(), strip(), splitlines(), join(),  *)
(* the regular-expression search and the JSON encoding are computed, not   *)
(* assumed.  Probabilities are integers in hundredths (0.8 is 80).         *)
(***************************************************************************)
EXTENDS Integers, Sequences, FiniteSets, TLC

VARIABLES
    tableExists,    \* learning_store.db holds the categories table
    categories,     \* rows of the categories table, in rowid order
    nextId,         \* the AUTOINCREMENT counter of categories.id
    clock,          \* datetime.now(): advanced by every write to the store
    latest,         \* history: the keywords argument of the latest upsert of each pair
    clfBlob,        \* models/subcat_clf.pkl: None, or the classifier of one train run
    vecBlob,        \* models/subcat_vec.pkl: None, or the vectorizer of one train run
    trainRuns,      \* number of train_ml_classifier calls started so far
    results_cache,  \* st.session_state["results_cache"]
    call,           \* the call under way in the pipeline specification
    last,           \* the last completed call: its arguments and what it returned
    pc,             \* concurrent specification: each worker's position
    loc             \* concurrent specification: each worker's local variables

vars == <<tableExists, categories, nextId, clock, latest, clfBlob, vecBlob,
          trainRuns, results_cache, call, last, pc, loc>>

storeVars == <<tableExists, categories, nextId, clock, latest>>
diskVars == <<clfBlob, vecBlob, trainRuns>>
concVars == <<pc, loc>>

\* An optional value is a sequence of no or one element: Python's None is <<>>.
None == <<>>
Some(x) == <<x>>

\* the id no row has: fetchone() found nothing (ids start at 1)
NoRow == 0

(***************************************************************************)
(* Python str operations                                                   *)
(***************************************************************************)

\* str.lower() on one character
LowerChar(c) ==
    CASE c = "A" -> "a" [] c = "B" -> "b" [] c = "D" -> "d" [] c = "E" -> "e"
      [] c = "F" -> "f" [] c = "I" -> "i" [] c = "L" -> "l" [] c = "N" -> "n"
      [] c = "O" -> "o" [] c = "R" -> "r" [] c = "S" -> "s" [] c = "U" -> "u"
      [] c = "W" -> "w"
      [] OTHER -> c

\* str.lower()
Lower(s) == [i \in 1..Len(s) |-> LowerChar(s[i])]

\* str.isspace() on one character
IsSpace(c) == c \in {" ", "\t", "\n", "\r"}

RECURSIVE LStrip(_)
LStrip(s) == IF s # <<>> /\ IsSpace(Head(s)) THEN LStrip(Tail(s)) ELSE s

RECURSIVE RStrip(_)
RStrip(s) ==
    IF s # <<>> /\ IsSpace(s[Len(s)]) THEN RStrip(SubSeq(s, 1, Len(s) - 1)) ELSE s

\* str.strip()
Strip(s) == RStrip(LStrip(s))

\* `sub in s`
Contains(sub, s) ==
    \E i \in 0..(Len(s) - Len(sub)) : SubSeq(s, i + 1, i + Len(sub)) = sub

\* str.splitlines(): lines end at \n, \r or \r\n; no empty line after a final
\* line end.  cur is the line being read, started tells whether it has begun.
RECURSIVE SplitFrom(_, _, _)
SplitFrom(s, cur, started) ==
    IF s = <<>> THEN (IF started THEN <<cur>> ELSE <<>>)
    ELSE IF Head(s) = "\r" /\ Len(s) >= 2 /\ s[2] = "\n"
         THEN <<cur>> \o SplitFrom(Tail(Tail(s)), <<>>, FALSE)
    ELSE IF Head(s) \in {"\n", "\r"}
         THEN <<cur>> \o SplitFrom(Tail(s), <<>>, FALSE)
    ELSE SplitFrom(Tail(s), Append(cur, Head(s)), TRUE)

SplitLines(s) == SplitFrom(s, <<>>, FALSE)

\* sep.join(parts)
RECURSIVE Join(_, _)
Join(sep, parts) ==
    IF parts = <<>> THEN <<>>
    ELSE IF Len(parts) = 1 THEN parts[1]
    ELSE parts[1] \o sep \o Join(sep, Tail(parts))

(***************************************************************************)
(* json.dumps / json.loads on a list of str                                *)
(***************************************************************************)

\* the JSON escape of one character inside a string literal
JsonEscape(c) ==
    CASE c = "\"" -> <<"\\", "\"">>
      [] c = "\\" -> <<"\\", "\\">>
      [] c = "\n" -> <<"\\", "n">>
      [] c = "\r" -> <<"\\", "r">>
      [] c = "\t" -> <<"\\", "t">>
      [] OTHER -> <<c>>

RECURSIVE JsonString(_)
JsonString(s) ==
    IF s = <<>> THEN <<>> ELSE JsonEscape(Head(s)) \o JsonString(Tail(s))

\* json.dumps(list of str): ["a", "b"]
JsonDumps(list) ==
    <<"[">> \o Join(<<",", " ">>, [i \in 1..Len(list) |-> <<"\"">> \o JsonString(list[i]) \o <<"\"">>])
            \o <<"]">>

JsonUnescape(c) ==
    CASE c = "n" -> "\n" [] c = "r" -> "\r" [] c = "t" -> "\t" [] OTHER -> c

\* json.loads of an array of strings.  j is the text still to read, cur the
\* string literal being read, inStr whether the reader is inside a literal.
RECURSIVE JsonParse(_, _, _)
JsonParse(j, cur, inStr) ==
    IF j = <<>> THEN <<>>
    ELSE IF inStr
         THEN IF Head(j) = "\\"
              THEN JsonParse(Tail(Tail(j)), Append(cur, JsonUnescape(j[2])), TRUE)
              ELSE IF Head(j) = "\""
                   THEN <<cur>> \o JsonParse(Tail(j), <<>>, FALSE)
                   ELSE JsonParse(Tail(j), Append(cur, Head(j)), TRUE)
         ELSE IF Head(j) = "\""
              THEN JsonParse(Tail(j), <<>>, TRUE)
              ELSE JsonParse(Tail(j), <<>>, FALSE)

JsonLoads(j) == JsonParse(j, <<>>, FALSE)

(***************************************************************************)
(* Data the calls are made with                                            *)
(***************************************************************************)

\* bound: number of writes to the Learning Store in one behaviour
MaxUpserts == 3

\* parent categories: opaque to the code, bound as SQL parameters
Parents == {"Infra", "Oracle"}

\* the labels of the bootstrap set (helpers.py line 83)
L_DBissue == <<"D", "B", " ", "i", "s", "s", "u", "e">>
L_Infraissue == <<"I", "n", "f", "r", "a", " ", "i", "s", "s", "u", "e">>
L_Security == <<"S", "e", "c", "u", "r", "i", "t", "y">>
L_Backup == <<"B", "a", "c", "k", "u", "p">>

BootstrapLabels == {L_DBissue, L_Infraissue, L_Security, L_Backup}

\* a label only a direct write to the store can bring in: its marker is upper-case
L_NetISSUE == <<"N", "e", "t", " ", "I", "S", "S", "U", "E">>

AllLabels == BootstrapLabels \cup {L_NetISSUE}

\* log lines used as keywords: plain, and one with a quote, a backslash and a tab
T_plain == <<"d", "i", "s", "k">>
T_quoted == <<"\"", "\\", "\t", "x">>

KeywordLists == {<<>>, <<T_plain>>, <<T_quoted, T_plain>>}

\* sub-categories the store is written with directly
SubCategories == {L_NetISSUE, L_Security}

Pairs == Parents \X AllLabels

(***************************************************************************)
(* Learning Store (helpers.py lines 11-61)                                 *)
(***************************************************************************)

Row(id, parent, subcat, keywords, now) ==
    [id |-> id, parent_category |-> parent, sub_category |-> subcat,
     keywords |-> JsonDumps(keywords), last_seen |-> now]

\* SELECT id FROM categories WHERE parent_category=? AND sub_category=?
\* followed by fetchone(): the id of the first matching row, or None
SelectId(cats, parent, subcat) ==
    LET hits == {i \in 1..Len(cats) :
                    cats[i].parent_category = parent /\ cats[i].sub_category = subcat}
    IN IF hits = {} THEN NoRow
       ELSE cats[CHOOSE i \in hits : \A j \in hits : i <= j].id

\* a store that inserts without looking at what the SELECT found
WriteRowNoCheck(cats, found, parent, subcat, keywords, now, id) ==
    Append(cats, Row(id, parent, subcat, keywords, now))

\* a store whose UPDATE adds the new keywords to the ones the row holds
WriteRowMerge(cats, found, parent, subcat, keywords, now, id) ==
    IF found # NoRow
    THEN [i \in 1..Len(cats) |->
            IF cats[i].id = found
            THEN [cats[i] EXCEPT
                    !.keywords = JsonDumps(JsonLoads(cats[i].keywords) \o keywords),
                    !.last_seen = now]
            ELSE cats[i]]
    ELSE Append(cats, Row(id, parent, subcat, keywords, now))

\* the row found decides: UPDATE ... WHERE id=?  or  INSERT INTO categories
WriteRow(cats, found, parent, subcat, keywords, now, id) ==
    IF found # NoRow
    THEN [i \in 1..Len(cats) |->
            IF cats[i].id = found
            THEN [cats[i] EXCEPT !.keywords = JsonDumps(keywords), !.last_seen = now]
            ELSE cats[i]]
    ELSE Append(cats, Row(id, parent, subcat, keywords, now))

\* the effect of one add_or_update_subcategory call on the store, run alone
Upsert(parent, subcat, keywords) ==
    LET found == SelectId(categories, parent, subcat)
    IN /\ categories' = WriteRow(categories, found, parent, subcat, keywords,
                                 clock + 1, nextId)
       /\ nextId' = IF found = NoRow THEN nextId + 1 ELSE nextId
       /\ clock' = clock + 1
       /\ latest' = [latest EXCEPT ![<<parent, subcat>>] = Some(keywords)]
       /\ UNCHANGED tableExists

\* init_learning_db: CREATE TABLE IF NOT EXISTS categories
init_learning_db ==
    /\ tableExists' = TRUE
    /\ last' = [op |-> "init_learning_db"]
    /\ UNCHANGED <<categories, nextId, clock, latest, diskVars, results_cache,
                   call, concVars>>

\* add_or_update_subcategory(parent, subcat, keywords), run alone.  Without the
\* table the SELECT raises sqlite3.OperationalError and nothing is written.
add_or_update_subcategory(parent, subcat, keywords) ==
    /\ clock < MaxUpserts
    /\ IF tableExists
       THEN /\ Upsert(parent, subcat, keywords)
            /\ last' = [op |-> "add_or_update_subcategory", parent |-> parent,
                        subcat |-> subcat, keywords |-> keywords, raised |-> FALSE]
       ELSE /\ last' = [op |-> "add_or_update_subcategory", parent |-> parent,
                        subcat |-> subcat, keywords |-> keywords, raised |-> TRUE]
            /\ UNCHANGED storeVars
    /\ UNCHANGED <<diskVars, results_cache, call, concVars>>

\* get_all_training_data: every row's keyword list flattened to (text, label)
RECURSIVE TrainingData(_)
TrainingData(cats) ==
    IF cats = <<>> THEN <<>>
    ELSE LET kws == JsonLoads(Head(cats).keywords)
         IN [i \in 1..Len(kws) |-> <<kws[i], Head(cats).sub_category>>]
            \o TrainingData(Tail(cats))

get_all_training_data == TrainingData(categories)

(***************************************************************************)
(* The state after construction: no database file, no model files, an      *)
(* empty results cache.                                                    *)
(***************************************************************************)

\* a model file that does not exist
NoBlob == [run |-> 0]

CacheFiles == {"msdata_log.txt", "infra_log.txt"}

Init ==
    /\ tableExists = FALSE
    /\ categories = <<>>
    /\ nextId = 1
    /\ clock = 0
    /\ latest = [p \in Pairs |-> None]
    /\ clfBlob = NoBlob
    /\ vecBlob = NoBlob
    /\ trainRuns = 0
    /\ results_cache = [f \in CacheFiles |-> <<>>]
    /\ call = [op |-> "none"]
    /\ last = [op |-> "none"]
    /\ pc = <<>>
    /\ loc = <<>>

(***************************************************************************)
(* Spec: the Learning Store written by sequential calls                    *)
(***************************************************************************)

Next ==
    \/ init_learning_db
    \/ \E parent \in Parents, subcat \in SubCategories, keywords \in KeywordLists :
          add_or_update_subcategory(parent, subcat, keywords)

Spec == Init /\ [][Next]_vars

RowsOf(parent, subcat) ==
    {i \in 1..Len(categories) :
        categories[i].parent_category = parent /\ categories[i].sub_category = subcat}

\* C1: after any sequence of sequential upserts on an initialized store there is
\* at most one row per (parent_category, sub_category) pair, a pair that was
\* upserted has exactly one row, and that row's keywords decode to the keywords
\* argument of the latest upsert of the pair.
C1_OneRowPerPairLatestKeywords ==
    \A pair \in Pairs :
        /\ Cardinality(RowsOf(pair[1], pair[2])) <= 1
        /\ latest[pair] # None =>
              \E i \in RowsOf(pair[1], pair[2]) :
                  /\ categories[i].keywords = JsonDumps(latest[pair][1])
                  /\ JsonLoads(categories[i].keywords) = latest[pair][1]
        /\ latest[pair] = None => RowsOf(pair[1], pair[2]) = {}

\* C1 witness: the same upsert made twice (two writes, the second with the
\* arguments of the first) has left one row, which holds the quoted keywords.
C1_Witness ==
    /\ clock = 2
    /\ Len(categories) = 1
    /\ categories[1].last_seen = 2
    /\ last.op = "add_or_update_subcategory"
    /\ last.keywords = <<T_quoted, T_plain>>
    /\ JsonLoads(categories[1].keywords) = <<T_quoted, T_plain>>

(***************************************************************************)
(* SpecConcStore: add_or_update_subcategory called by concurrent workers.  *)
(* Every call opens its own connection; the SELECT runs outside any write  *)
(* transaction, the UPDATE or INSERT and the commit follow as a second     *)
(* step, and the table has no UNIQUE constraint.                           *)
(***************************************************************************)

\* bound: number of concurrent workers (request handlers)
NumWorkers == 2

Workers == 1..NumWorkers

Idle == [op |-> "none"]

InitConc ==
    /\ Init!1 /\ Init!2 /\ Init!3 /\ Init!4 /\ Init!5 /\ Init!6 /\ Init!7
    /\ Init!8 /\ Init!9 /\ Init!10 /\ Init!11
    /\ pc = [w \in Workers |-> "idle"]
    /\ loc = [w \in Workers |-> Idle]

\* lines 31-37: connect, SELECT id ..., fetchone().  Without the table the
\* SELECT raises sqlite3.OperationalError.
upsert_select(w, parent, subcat, keywords) ==
    /\ pc[w] = "idle"
    /\ clock < MaxUpserts
    /\ IF tableExists
       THEN /\ pc' = [pc EXCEPT ![w] = "upsert_write"]
            /\ loc' = [loc EXCEPT ![w] =
                        [op |-> "add_or_update_subcategory", parent |-> parent,
                         subcat |-> subcat, keywords |-> keywords,
                         row |-> SelectId(categories, parent, subcat)]]
       ELSE /\ loc' = [loc EXCEPT ![w] =
                        [op |-> "add_or_update_subcategory", parent |-> parent,
                         subcat |-> subcat, keywords |-> keywords,
                         error |-> "OperationalError"]]
            /\ UNCHANGED pc
    /\ UNCHANGED <<storeVars, diskVars, results_cache, call, last>>

\* lines 38-50: now, UPDATE or INSERT by what the SELECT found, commit, close
upsert_write(w) ==
    /\ pc[w] = "upsert_write"
    /\ categories' = WriteRow(categories, loc[w].row, loc[w].parent, loc[w].subcat,
                              loc[w].keywords, clock + 1, nextId)
    /\ nextId' = IF loc[w].row = NoRow THEN nextId + 1 ELSE nextId
    /\ clock' = clock + 1
    /\ latest' = [latest EXCEPT ![<<loc[w].parent, loc[w].subcat>>] =
                    Some(loc[w].keywords)]
    /\ pc' = [pc EXCEPT ![w] = "idle"]
    /\ UNCHANGED <<tableExists, loc, diskVars, results_cache, call, last>>

NextConcStore ==
    \/ init_learning_db
    \/ \E w \in Workers, parent \in Parents, subcat \in SubCategories,
          keywords \in KeywordLists : upsert_select(w, parent, subcat, keywords)
    \/ \E w \in Workers : upsert_write(w)

SpecConcStore == InitConc /\ [][NextConcStore]_vars

\* C2: under every interleaving of concurrent upserts of the same pair the
\* writes are serialized (check and write act as one step), so the store holds
\* at most one row per (parent_category, sub_category) pair.
C2_ConcurrentOneRowPerPair ==
    \A pair \in Pairs : Cardinality(RowsOf(pair[1], pair[2])) <= 1

(***************************************************************************)
(* Keyword filter (helpers.py lines 129-137)                               *)
(***************************************************************************)

K_error == <<"e", "r", "r", "o", "r">>
K_fail == <<"f", "a", "i", "l">>
K_warn == <<"w", "a", "r", "n">>
K_exception == <<"e", "x", "c", "e", "p", "t", "i", "o", "n">>
K_timeout == <<"t", "i", "m", "e", "o", "u", "t">>

\* the alternatives of r"(error|fail|warn|exception|timeout)"
KeywordPattern == {K_error, K_fail, K_warn, K_exception, K_timeout}

\* a filter that searches the line as written, not its lower-cased form
MatchesCaseSensitive(line) == \E k \in KeywordPattern : Contains(k, line)

\* re.search(pattern, line.lower())
Matches(line) == \E k \in KeywordPattern : Contains(k, Lower(line))

\* filter_logs_by_category(log_text, category): ("\n".join(filtered), matched)
filter_logs_by_category(log_text, category) ==
    LET selected == SelectSeq(SplitLines(log_text), Matches)
    IN [filtered_text |-> Join(<<"\n">>, selected),
        matched |-> [i \in 1..Len(selected) |-> Strip(selected[i])]]

(***************************************************************************)
(* Issue synthesizer (helpers.py lines 143-173)                            *)
(***************************************************************************)

\* the thresholds of line 160 and line 161, in hundredths
RelevanceAbove == 60
HighAbove == 80
MediumAbove == 60

K_issue == <<"i", "s", "s", "u", "e">>

\* f"No issues found for {category}": the literal and the category appended
NoIssuesFound(category) == [Inference |-> <<"No issues found for ", category>>]

\* line 161 with >= in place of >
SeverityInclusive(prob) ==
    IF prob >= HighAbove THEN "High" ELSE IF prob >= MediumAbove THEN "Medium" ELSE "Low"

\* line 161
Severity(prob) ==
    IF prob > HighAbove THEN "High" ELSE IF prob > MediumAbove THEN "Medium" ELSE "Low"

\* line 160: "issue" in pred.lower() or prob > 0.6
Retained(pred, prob) == Contains(K_issue, Lower(pred)) \/ prob > RelevanceAbove

\* lines 162-169
Issue(category, prob, line) ==
    [Inference |-> <<"Issue detected in ", category>>,
     Severity |-> Severity(prob),
     Reasons |-> <<Strip(line)>>,
     Action |-> "Investigate the issue",
     Why |-> "Detected unusual or problematic log behavior",
     BusinessImpact |-> "Potential service degradation or outage"]

\* lines 156-169: the loop over log_text.splitlines(); preds[i] is what the
\* classifier answers for lines[i]
RECURSIVE Issues(_, _, _)
Issues(lines, preds, category) ==
    IF lines = <<>> THEN <<>>
    ELSE (IF Retained(Head(preds).pred, Head(preds).prob)
          THEN <<Issue(category, Head(preds).prob, Head(lines))>>
          ELSE <<>>)
         \o Issues(Tail(lines), Tail(preds), category)

\* lines 171-173 without the fallback to the sentinel
OrSentinelMissing(issues, category) == issues

\* lines 171-173
OrSentinel(issues, category) ==
    IF issues = <<>> THEN <<NoIssuesFound(category)>> ELSE issues

\* line 145: not log_text.strip()
Blank(log_text) == Strip(log_text) = <<>>

(***************************************************************************)
(* Classifier training as the sequential callers see it (lines 70-99)      *)
(***************************************************************************)

\* clf.classes_: the labels of the bootstrap set when the store gave no data
Classes(data) ==
    IF data = <<>> THEN BootstrapLabels ELSE {data[i][2] : i \in 1..Len(data)}

\* LogisticRegression.fit raises ValueError on data of fewer than two classes
FitFails(data) == data # <<>> /\ Cardinality(Classes(data)) < 2

\* what one train_ml_classifier call, run alone, ends with
TrainError ==
    IF ~tableExists THEN "OperationalError"
    ELSE IF FitFails(get_all_training_data) THEN "ValueError"
    ELSE "none"

\* bound: number of train_ml_classifier calls in one behaviour
MaxTrainRuns == 3

\* joblib.dump(clf, MODEL_PATH)
ClfOf(run, data) == [run |-> run, classes |-> Classes(data)]

\* joblib.dump(vectorizer, VEC_PATH)
VecOf(run) == [run |-> run]

(***************************************************************************)
(* SpecPipeline: one pipeline call on given inputs.  The initial state     *)
(* draws the call and the Learning Store it runs against: no table yet, an *)
(* empty table, or the two rows two direct writes leave.                   *)
(***************************************************************************)

\* bounds: lines of a filtered text, lines of a synthesized text, entries of
\* a backend response
MaxLines == 2
MaxAiLines == 2
MaxEntries == 2

SeqUpTo(S, n) == UNION {[1..k -> S] : k \in 0..n}

Categories == {"Morning Checks", "Night Checks"}

\* confidences around the two thresholds, in hundredths
Probs == {60, 61, 80, 81}

X_FAIL == <<"F", "A", "I", "L">>
X_warn == <<" ", "w", "a", "r", "n", "\t">>
X_ok == <<"o", "k">>
X_fai == <<"f", "a", "i", " ", "l">>
X_space == <<" ">>

FilterLineSet == {X_FAIL, X_warn, X_ok, X_fai, <<>>}
AiLineSet == {X_warn, X_ok, X_space}

FilterTexts ==
    {Join(sep, lines) \o trail :
        lines \in SeqUpTo(FilterLineSet, MaxLines),
        sep \in {<<"\n">>, <<"\r", "\n">>}, trail \in {<<>>, <<"\n">>}}

FilterCalls ==
    {[op |-> "filter_logs_by_category", log_text |-> t, category |-> c] :
        t \in FilterTexts, c \in Categories}

\* the labels the classifier is let answer with: with the marker in lower
\* case, with the marker in upper case, without the marker
AnswerLabels == {L_DBissue, L_NetISSUE, L_Security}

AiTexts(n) == {Join(<<"\n">>, lines) : lines \in SeqUpTo(AiLineSet, n)}

AiCalls(classes, n) ==
    UNION {{[op |-> "local_log_ai", log_text |-> t, category |-> c, preds |-> ps] :
              c \in Categories,
              ps \in [1..Len(SplitLines(t)) -> [pred : classes, prob : Probs]]} :
           t \in AiTexts(n)}

\* the two rows left by add_or_update_subcategory("Infra", "Net ISSUE", [..])
\* and add_or_update_subcategory("Oracle", "Security", [..]) on an empty table
PopulatedStore ==
    <<Row(1, "Infra", L_NetISSUE, <<T_plain>>, 1),
      Row(2, "Oracle", L_Security, <<T_quoted, T_plain>>, 2)>>

InitStore(kind) ==
    /\ tableExists = (kind # "absent")
    /\ categories = IF kind = "populated" THEN PopulatedStore ELSE <<>>
    /\ nextId = IF kind = "populated" THEN 3 ELSE 1
    /\ clock = IF kind = "populated" THEN 2 ELSE 0
    /\ latest = [p \in Pairs |->
                   IF kind # "populated" THEN None
                   ELSE IF p = <<"Infra", L_NetISSUE>> THEN Some(<<T_plain>>)
                   ELSE IF p = <<"Oracle", L_Security>> THEN Some(<<T_quoted, T_plain>>)
                   ELSE None]

(***************************************************************************)
(* process_category (monitoring_app.py lines 70-106) and the backend it    *)
(* calls.  A response entry is a dict (its "Inference" and "Severity"      *)
(* values, None when the key is missing) or something that is not a dict.  *)
(***************************************************************************)

\* the literal of lines 81 and 96
SentinelInference == "No issues in this category"

Dict(inference, severity) ==
    [kind |-> "dict", Inference |-> inference, Severity |-> severity]

E_sentinel == Dict(Some(SentinelInference), None)
E_real == Dict(Some("Disk failure on node 3"), Some("High"))
E_found == Dict(Some("No issues found for Morning Checks"), None)
E_empty == Dict(None, None)
E_text == [kind |-> "str", Inference |-> None, Severity |-> None]

EntrySet == {E_sentinel, E_real, E_found, E_empty, E_text}

\* what send_to_azure_openai may return: a list of entries, or a bare entry
Responses ==
    {[islist |-> TRUE, items |-> items] : items \in SeqUpTo(EntrySet, MaxEntries)}
    \cup {[islist |-> FALSE, items |-> <<e>>] : e \in EntrySet}

\* what read_log_file returns: "" for a missing file, or the file's text
FileTexts == {<<>>, X_space, X_ok}

AppCalls ==
    {[op |-> "process_category", file_name |-> f, category |-> c,
      log_text |-> t, response |-> r] :
        f \in CacheFiles, c \in Categories, t \in FileTexts, r \in Responses}

\* line 81: isinstance(r, dict) and r.get("Inference") != "No issues in this category"
IsRealIssue(r) == r.kind = "dict" /\ r.Inference # Some(SentinelInference)

\* lines 78-86 keeping the whole response
CleanResultsKeepAll(response) == response.items

\* lines 78-86: result_list, real_issues, cleaned_results
CleanResults(response) ==
    LET result_list == response.items
        real_issues == SelectSeq(result_list, IsRealIssue)
    IN IF real_issues # <<>> THEN real_issues ELSE result_list

\* lines 93-98
is_no_issue(entry) ==
    entry.kind = "dict"
    /\ (entry = E_empty \/ entry.Inference = Some(SentinelInference))

\* lines 100-106: what the page shows for the cached results
Shown(cached_results) ==
    IF cached_results # <<>>
    THEN IF \A i \in 1..Len(cached_results) : is_no_issue(cached_results[i])
         THEN "No Issues found" ELSE "table"
    ELSE "No Issues found"

process_category ==
    /\ call.op = "process_category"
    /\ results_cache' =
          IF ~Blank(call.log_text)
          THEN [results_cache EXCEPT ![call.file_name] = CleanResults(call.response)]
          ELSE results_cache
    /\ last' = [op |-> "process_category", outcome |-> "returned",
                shown |-> Shown(results_cache'[call.file_name])]
    /\ UNCHANGED <<storeVars, diskVars, call, concVars>>

\* the "Refresh Now" button (lines 120-122)
refresh_now ==
    /\ call.op = "process_category"
    /\ results_cache' = [k \in DOMAIN results_cache |-> <<>>]
    /\ last' = [op |-> "refresh_now", outcome |-> "returned"]
    /\ UNCHANGED <<storeVars, diskVars, call, concVars>>

\* filter_logs_by_category applied to the call's arguments
apply_filter ==
    /\ call.op = "filter_logs_by_category"
    /\ last' = [op |-> "filter_logs_by_category", outcome |-> "returned",
                result |-> filter_logs_by_category(call.log_text, call.category)]
    /\ UNCHANGED <<storeVars, diskVars, results_cache, call, concVars>>

\* local_log_ai(log_text, category), run alone.  A blank text returns the
\* sentinel at once.  Otherwise the model is loaded when the classifier file
\* exists (line 150 looks at that file only) and trained when it does not; a
\* failing load or train leaves the call without a result.
local_log_ai ==
    /\ call.op = "local_log_ai"
    /\ LET raised(e) == [op |-> "local_log_ai", outcome |-> "raised", error |-> e]
           returned(clf) ==
               [op |-> "local_log_ai", outcome |-> "returned", classes |-> clf.classes,
                result |-> OrSentinel(Issues(SplitLines(call.log_text), call.preds,
                                             call.category), call.category)]
       IN IF Blank(call.log_text)
          THEN /\ last' = [op |-> "local_log_ai", outcome |-> "returned",
                           classes |-> {},
                           result |-> <<NoIssuesFound(call.category)>>]
               /\ UNCHANGED diskVars
          ELSE IF clfBlob # NoBlob
          THEN /\ last' = IF vecBlob = NoBlob THEN raised("FileNotFoundError")
                          ELSE returned(clfBlob)
               /\ \A i \in 1..Len(call.preds) : call.preds[i].pred \in clfBlob.classes
               /\ UNCHANGED diskVars
          ELSE IF TrainError # "none"
          THEN /\ trainRuns < MaxTrainRuns
               /\ last' = raised(TrainError)
               /\ trainRuns' = trainRuns + 1
               /\ UNCHANGED <<clfBlob, vecBlob>>
          ELSE /\ trainRuns < MaxTrainRuns
               /\ trainRuns' = trainRuns + 1
               /\ clfBlob' = ClfOf(trainRuns + 1, get_all_training_data)
               /\ vecBlob' = VecOf(trainRuns + 1)
               /\ \A i \in 1..Len(call.preds) : call.preds[i].pred \in clfBlob'.classes
               /\ last' = returned(clfBlob')
    /\ UNCHANGED <<storeVars, results_cache, call, concVars>>

InitPipeline ==
    /\ \E kind \in {"absent", "empty", "populated"} :
          /\ InitStore(kind)
          /\ call \in (IF kind = "empty" THEN FilterCalls \cup AppCalls ELSE {})
                      \cup AiCalls(Classes(TrainingData(categories)) \cap AnswerLabels,
                                   IF kind = "absent" THEN 1 ELSE MaxAiLines)
    /\ clfBlob = NoBlob
    /\ vecBlob = NoBlob
    /\ trainRuns = 0
    /\ results_cache = [f \in CacheFiles |-> <<>>]
    /\ last = [op |-> "none"]
    /\ pc = <<>>
    /\ loc = <<>>

NextPipeline ==
    \/ apply_filter
    \/ local_log_ai
    \/ process_category
    \/ refresh_now

SpecPipeline == InitPipeline /\ [][NextPipeline]_vars

(***************************************************************************)
(* Claims about the keyword filter                                         *)
(***************************************************************************)

\* the keyword predicate as the specification words it: the lower-cased line
\* contains one of error, fail, warn, exception, timeout
HasKeyword(line) ==
    \E k \in KeywordPattern :
        \E i \in 1..Len(line) :
            /\ i + Len(k) - 1 <= Len(line)
            /\ \A j \in 1..Len(k) : LowerChar(line[i + j - 1]) = k[j]

\* the lines of text with a keyword, in order
KeywordLines(text) == SelectSeq(SplitLines(text), HasKeyword)

\* C10 as stated: matched_lines is the subsequence of the text's lines that
\* holds exactly the lines with a keyword, filtered_text is matched_lines
\* joined by newline, and the category does not matter.
C10_AsStated ==
    last.op = "filter_logs_by_category" =>
        /\ last.result.matched = KeywordLines(call.log_text)
        /\ last.result.filtered_text = Join(<<"\n">>, last.result.matched)
        /\ \A c \in Categories :
              filter_logs_by_category(call.log_text, c) = last.result

\* C10 (amended): matched_lines holds, in order, the whitespace-trimmed form of
\* exactly the lines of the text whose lower-cased form contains a keyword;
\* filtered_text is those lines as written (untrimmed) joined by newline; the
\* result does not depend on the category.
C10_FilterTrimmedSubsequence ==
    last.op = "filter_logs_by_category" =>
        LET want == KeywordLines(call.log_text)
        IN /\ Len(last.result.matched) = Len(want)
           /\ \A i \in 1..Len(want) : last.result.matched[i] = Strip(want[i])
           /\ last.result.filtered_text = Join(<<"\n">>, want)
           /\ \A c \in Categories :
                 filter_logs_by_category(call.log_text, c) = last.result

\* C10 witness: a text with an upper-case keyword line, a keyword line with
\* surrounding white space, and the filter's answer for it.
C10_Witness ==
    /\ last.op = "filter_logs_by_category"
    /\ SplitLines(call.log_text) = <<X_FAIL, X_warn>>
    /\ last.result.matched = <<X_FAIL, K_warn>>
    /\ last.result.filtered_text = X_FAIL \o <<"\n">> \o X_warn

(***************************************************************************)
(* Claims about the issue synthesizer and the results cache                *)
(***************************************************************************)

\* the specification's words: the label contains "issue", case-insensitively
HasIssueMarker(label) ==
    \E i \in 1..Len(label) :
        /\ i + 4 <= Len(label)
        /\ \A j \in 1..5 : LowerChar(label[i + j - 1]) = K_issue[j]

\* below the relevance bar: confidence <= 0.6 and no "issue" marker
Excluded(p) == p.prob <= 60 /\ ~HasIssueMarker(p.pred)

\* High above 0.8, Medium above 0.6 and up to 0.8, Low otherwise
SeverityAsSpecified(c) ==
    IF c > 80 THEN "High" ELSE IF c > 60 /\ c <= 80 THEN "Medium" ELSE "Low"

AllWhitespace(text) == \A i \in 1..Len(text) : text[i] \in {" ", "\t", "\n", "\r"}

\* the indices of the call's lines that are not excluded, in input order
KeptLines ==
    SelectSeq([i \in 1..Len(call.preds) |-> i], LAMBDA i : ~Excluded(call.preds[i]))

AiReturned == last.op = "local_log_ai" /\ last.outcome = "returned"

\* C4: whenever local_log_ai returns, the sequence is not empty: it is exactly
\* the one sentinel [{"Inference": "No issues found for <category>"}] when the
\* text is blank or no line is retained, and otherwise one real issue per
\* retained line, in input order, whose Reasons hold that line's trimmed text.
C4_SynthesizeNeverEmpty ==
    AiReturned =>
        LET lines == SplitLines(call.log_text)
            res == last.result
        IN /\ res # <<>>
           /\ (AllWhitespace(call.log_text) \/ KeptLines = <<>>) =>
                 res = <<[Inference |-> <<"No issues found for ", call.category>>]>>
           /\ ~(AllWhitespace(call.log_text) \/ KeptLines = <<>>) =>
                 /\ Len(res) = Len(KeptLines)
                 /\ \A k \in 1..Len(res) :
                       /\ "Severity" \in DOMAIN res[k]
                       /\ res[k].Inference = <<"Issue detected in ", call.category>>
                       /\ res[k].Reasons = <<Strip(lines[KeptLines[k]])>>

\* C4 witness: a two-line text whose first line is excluded and whose second
\* line is retained gives the one issue of the second line, trimmed.
C4_Witness ==
    /\ AiReturned
    /\ SplitLines(call.log_text) = <<X_ok, X_warn>>
    /\ Excluded(call.preds[1])
    /\ ~Excluded(call.preds[2])
    /\ Len(last.result) = 1
    /\ last.result[1].Reasons = <<K_warn>>

\* C9: a line is excluded exactly when its confidence is <= 0.6 and its label
\* has no "issue" marker (case-insensitive); the retained lines get High above
\* 0.8, Medium above 0.6 and up to 0.8, Low otherwise, so Low goes only to
\* lines of confidence <= 0.6 whose label has the marker.
C9_ExclusionAndSeverity ==
    (AiReturned /\ ~AllWhitespace(call.log_text)) =>
        LET res == last.result
            real == SelectSeq(res, LAMBDA e : "Severity" \in DOMAIN e)
        IN /\ Len(real) = Len(KeptLines)
           /\ \A k \in 1..Len(real) :
                 LET p == call.preds[KeptLines[k]]
                 IN /\ real[k].Severity = SeverityAsSpecified(p.prob)
                    /\ real[k].Severity = "Low" =>
                          (p.prob <= 60 /\ HasIssueMarker(p.pred))
                    /\ p.prob = 80 => real[k].Severity = "Medium"
                    /\ p.prob = 60 => real[k].Severity # "Medium"

\* C9 witness: confidence exactly 0.8 gives Medium, and confidence exactly 0.6
\* with the upper-case label "Net ISSUE" is retained as Low.
C9_Witness ==
    /\ AiReturned
    /\ Len(call.preds) = 2
    /\ call.preds[1] = [pred |-> L_Security, prob |-> 80]
    /\ call.preds[2] = [pred |-> L_NetISSUE, prob |-> 60]
    /\ Len(last.result) = 2
    /\ last.result[1].Severity = "Medium"
    /\ last.result[2].Severity = "Low"

\* the sentinel no-issue entry and a real-issue entry of a backend response
IsSentinelEntry(e) == e.kind = "dict" /\ e.Inference = Some(SentinelInference)
IsIssueEntry(e) ==
    e.kind = "dict" /\ e.Inference # None /\ e.Inference # Some(SentinelInference)

HasEntry(entries, Test(_)) == \E i \in 1..Len(entries) : Test(entries[i])

\* C5: no result set stored in the results cache, and no sequence local_log_ai
\* returns, holds both a sentinel and a real issue; when the backend response
\* holds a real issue the stored set holds the response's real issues and no
\* sentinel.
C5_SentinelExcludesRealIssues ==
    /\ \A f \in CacheFiles :
          ~(HasEntry(results_cache[f], IsSentinelEntry)
            /\ HasEntry(results_cache[f], IsIssueEntry))
    /\ (/\ last.op = "process_category"
        /\ ~AllWhitespace(call.log_text)
        /\ HasEntry(call.response.items, IsIssueEntry)) =>
          /\ ~HasEntry(results_cache[call.file_name], IsSentinelEntry)
          /\ SelectSeq(results_cache[call.file_name], IsIssueEntry)
                = SelectSeq(call.response.items, IsIssueEntry)
    /\ AiReturned =>
          ~(/\ \E i \in 1..Len(last.result) : "Severity" \notin DOMAIN last.result[i]
            /\ \E i \in 1..Len(last.result) : "Severity" \in DOMAIN last.result[i])

\* C5 witness: the backend answered a sentinel and a real issue, and the cache
\* of the file holds the real issue alone.
C5_Witness ==
    /\ last.op = "process_category"
    /\ call.response.items = <<E_sentinel, E_real>>
    /\ results_cache[call.file_name] = <<E_real>>

(***************************************************************************)
(* Confidence Gate (helpers.py lines 106-116).  SpecGate: the Learning     *)
(* Store written by sequential predict_subcategory calls only.             *)
(***************************************************************************)

\* the default of the threshold parameter (line 106), in hundredths
DefaultThreshold == 80

\* bound: number of accepted predictions in one behaviour
MaxAccepted == 3

GateTexts == {X_space, X_warn, T_plain}
GateLabels == {L_DBissue, L_Security}
GateProbs == {61, 80, 81}
Thresholds == {DefaultThreshold, 61}

\* line 113 with > in place of >=
AcceptsStrict(prob, threshold) == prob > threshold

\* line 113: prob >= threshold
Accepts(prob, threshold) == prob >= threshold

\* predict_subcategory(log_line, parent_category, clf, vectorizer, threshold),
\* run alone; pred and prob are what clf answers for log_line.  The call
\* record keeps the store as it was before the call.
predict_subcategory(log_line, parent_category, pred, prob, threshold) ==
    LET rec(label, p, asked, ups, raised) ==
            [op |-> "predict_subcategory", log_line |-> log_line,
             parent |-> parent_category, pred |-> pred, prob |-> prob,
             threshold |-> threshold, label |-> label, confidence |-> p,
             model_calls |-> asked, upserts |-> ups, raised |-> raised,
             before |-> categories, had_table |-> tableExists]
    IN /\ clock < MaxAccepted
       /\ IF Blank(log_line)
          THEN /\ last' = rec(None, 0, 0, <<>>, FALSE)
               /\ UNCHANGED storeVars
          ELSE IF Accepts(prob, threshold)
          THEN IF tableExists
               THEN /\ Upsert(parent_category, pred, <<log_line>>)
                    /\ last' = rec(Some(pred), prob, 1,
                                   <<<<parent_category, pred, <<log_line>>>>>>, FALSE)
               ELSE /\ last' = rec(None, prob, 1,
                                   <<<<parent_category, pred, <<log_line>>>>>>, TRUE)
                    /\ UNCHANGED storeVars
          ELSE /\ last' = rec(None, prob, 1, <<>>, FALSE)
               /\ UNCHANGED storeVars
       /\ UNCHANGED <<diskVars, results_cache, call, concVars>>

NextGate ==
    \/ init_learning_db
    \/ \E log_line \in GateTexts, parent \in Parents, pred \in GateLabels,
          prob \in GateProbs, threshold \in Thresholds :
          predict_subcategory(log_line, parent, pred, prob, threshold)

SpecGate == Init /\ [][NextGate]_vars

\* the rows of a table that belong to a pair
RowsIn(cats, parent, subcat) ==
    {i \in 1..Len(cats) :
        cats[i].parent_category = parent /\ cats[i].sub_category = subcat}

Count(seq, x) == Cardinality({i \in 1..Len(seq) : seq[i] = x})

\* the pair a row belongs to
PairOf(row) == <<row.parent_category, row.sub_category>>

C8_TrainFallsBackToBootstrap ==
    (~tableExists /\ last.op = "local_log_ai" /\ ~AllWhitespace(call.log_text)) =>
        /\ last.outcome = "returned"
        /\ clfBlob # NoBlob
        /\ vecBlob # NoBlob
        /\ clfBlob.classes = BootstrapLabels

(***************************************************************************)
(* SpecConcModel: load_ml_classifier and local_log_ai called by concurrent *)
(* workers, each step one access to the store or to a model file.  Nothing *)
(* in the code locks the model files, and nothing ever deletes them.       *)
(***************************************************************************)

ConcTexts == {X_space, X_warn}
ConcProbs == {60, 81}

Fresh(op, text) ==
    [op |-> op, text |-> text, clf |-> NoBlob, vec |-> NoBlob, data |-> <<>>,
     run |-> 0, outcome |-> "running", error |-> "none", result |-> <<>>]

Raised(l, e) == [l EXCEPT !.outcome = "raised", !.error = e]

InitConcModel ==
    /\ Init!1 /\ Init!2 /\ Init!3 /\ Init!4 /\ Init!5 /\ Init!6 /\ Init!7
    /\ Init!8 /\ Init!9 /\ Init!10 /\ Init!11
    /\ pc = [w \in Workers |-> "idle"]
    /\ loc = [w \in Workers |-> Fresh("none", <<>>)]

Goto(w, where, l) ==
    /\ pc' = [pc EXCEPT ![w] = where]
    /\ loc' = [loc EXCEPT ![w] = l]

\* line 102, left operand: os.path.exists(MODEL_PATH)
load_check_clf(w) ==
    /\ pc[w] = "idle"
    /\ Goto(w, IF clfBlob # NoBlob THEN "load_check_vec" ELSE "train_read",
            Fresh("load_ml_classifier", <<>>))
    /\ UNCHANGED <<storeVars, diskVars, results_cache, call, last>>

\* line 102, right operand: os.path.exists(VEC_PATH)
load_check_vec(w) ==
    /\ pc[w] = "load_check_vec"
    /\ Goto(w, IF vecBlob # NoBlob THEN "load_clf" ELSE "train_read", loc[w])
    /\ UNCHANGED <<storeVars, diskVars, results_cache, call, last>>

\* line 103: joblib.load(MODEL_PATH)
load_clf(w) ==
    /\ pc[w] = "load_clf"
    /\ Goto(w, "load_vec", [loc[w] EXCEPT !.clf = clfBlob])
    /\ UNCHANGED <<storeVars, diskVars, results_cache, call, last>>

\* line 103: joblib.load(VEC_PATH), and the return
load_vec(w) ==
    /\ pc[w] = "load_vec"
    /\ Goto(w, "idle", [loc[w] EXCEPT !.vec = vecBlob, !.outcome = "returned"])
    /\ UNCHANGED <<storeVars, diskVars, results_cache, call, last>>

\* lines 145-150: the blank text returns the sentinel; otherwise
\* os.path.exists(model_path) decides between loading and training
lla_start(w, text) ==
    /\ pc[w] = "idle"
    /\ IF Blank(text)
       THEN Goto(w, "idle", [Fresh("local_log_ai", text) EXCEPT
                                !.outcome = "returned",
                                !.result = <<NoIssuesFound("Morning Checks")>>])
       ELSE Goto(w, IF clfBlob # NoBlob THEN "lla_load_clf" ELSE "train_read",
                 Fresh("local_log_ai", text))
    /\ UNCHANGED <<storeVars, diskVars, results_cache, call, last>>

\* line 151: joblib.load(model_path)
lla_load_clf(w) ==
    /\ pc[w] = "lla_load_clf"
    /\ Goto(w, "lla_load_vec", [loc[w] EXCEPT !.clf = clfBlob])
    /\ UNCHANGED <<storeVars, diskVars, results_cache, call, last>>

\* line 152: joblib.load(vec_path): FileNotFoundError when the file is missing
lla_load_vec(w) ==
    /\ pc[w] = "lla_load_vec"
    /\ IF vecBlob = NoBlob
       THEN Goto(w, "idle", Raised(loc[w], "FileNotFoundError"))
       ELSE Goto(w, "lla_classify", [loc[w] EXCEPT !.vec = vecBlob])
    /\ UNCHANGED <<storeVars, diskVars, results_cache, call, last>>

\* lines 156-173: the loop over the lines with the model in hand, the return
lla_classify(w) ==
    /\ pc[w] = "lla_classify"
    /\ \E pred \in loc[w].clf.classes \cap AnswerLabels, prob \in ConcProbs :
          Goto(w, "idle",
               [loc[w] EXCEPT
                  !.outcome = "returned",
                  !.result = OrSentinel(Issues(SplitLines(loc[w].text),
                                               <<[pred |-> pred, prob |-> prob]>>,
                                               "Morning Checks"),
                                        "Morning Checks")])
    /\ UNCHANGED <<storeVars, diskVars, results_cache, call, last>>

\* lines 72-73: makedirs, data = get_all_training_data(): without the table
\* the SELECT raises sqlite3.OperationalError
train_read(w) ==
    /\ pc[w] = "train_read"
    /\ trainRuns < MaxTrainRuns
    /\ trainRuns' = trainRuns + 1
    /\ IF ~tableExists
       THEN Goto(w, "idle", Raised(loc[w], "OperationalError"))
       ELSE Goto(w, "train_dump_clf",
                 [loc[w] EXCEPT !.data = get_all_training_data,
                                !.run = trainRuns + 1])
    /\ UNCHANGED <<storeVars, clfBlob, vecBlob, results_cache, call, last>>

\* lines 84-88 and 93-97: fit, joblib.dump(clf, MODEL_PATH)
train_dump_clf(w) ==
    /\ pc[w] = "train_dump_clf"
    /\ IF FitFails(loc[w].data)
       THEN /\ Goto(w, "idle", Raised(loc[w], "ValueError"))
            /\ UNCHANGED clfBlob
       ELSE /\ clfBlob' = ClfOf(loc[w].run, loc[w].data)
            /\ Goto(w, "train_dump_vec", loc[w])
    /\ UNCHANGED <<storeVars, vecBlob, trainRuns, results_cache, call, last>>

\* lines 89-90 and 98-99: joblib.dump(vectorizer, VEC_PATH), return clf,
\* vectorizer to load_ml_classifier (which returns them) or to local_log_ai
train_dump_vec(w) ==
    /\ pc[w] = "train_dump_vec"
    /\ vecBlob' = VecOf(loc[w].run)
    /\ LET l == [loc[w] EXCEPT !.clf = ClfOf(loc[w].run, loc[w].data),
                               !.vec = VecOf(loc[w].run), !.data = <<>>]
       IN IF loc[w].op = "load_ml_classifier"
          THEN Goto(w, "idle", [l EXCEPT !.outcome = "returned"])
          ELSE Goto(w, "lla_classify", l)
    /\ UNCHANGED <<storeVars, clfBlob, trainRuns, results_cache, call, last>>

NextConcModel ==
    \/ init_learning_db
    \/ \E subcat \in SubCategories :
          add_or_update_subcategory("Infra", subcat, <<T_plain>>)
    \/ \E w \in Workers :
          \/ load_check_clf(w)
          \/ load_check_vec(w)
          \/ load_clf(w)
          \/ load_vec(w)
          \/ \E text \in ConcTexts : lla_start(w, text)
          \/ lla_load_clf(w)
          \/ lla_load_vec(w)
          \/ lla_classify(w)
          \/ train_read(w)
          \/ train_dump_clf(w)
          \/ train_dump_vec(w)

SpecConcModel == InitConcModel /\ [][NextConcModel]_vars

Training(w) == pc[w] \in {"train_read", "train_dump_clf", "train_dump_vec"}

\* C6: at most one train_ml_classifier is in progress at any time, so that
\* whenever none is in progress the classifier file and the vectorizer file
\* come from the same train call, and no reader ends up with a classifier of
\* one training run and a vectorizer of another.
C6_AtMostOneTrainCoVersioned ==
    /\ Cardinality({w \in Workers : Training(w)}) <= 1
    /\ (\A w \in Workers : ~Training(w)) => clfBlob.run = vecBlob.run
    /\ \A w \in Workers :
          (loc[w].outcome = "returned" /\ loc[w].clf # NoBlob) =>
              loc[w].clf.run = loc[w].vec.run

\* C6, the files alone: with no train in progress the two files are of one run
C6_FilesCoVersionedAtRest ==
    (\A w \in Workers : ~Training(w)) => clfBlob.run = vecBlob.run

\* C6, the readers alone: a model returned is of one run
C6_ReadersGetOneRun ==
    \A w \in Workers :
        (loc[w].outcome = "returned" /\ loc[w].clf # NoBlob) =>
            loc[w].clf.run = loc[w].vec.run

\* C7: whatever files are on disk, load_ml_classifier and local_log_ai never
\* read one model file without the other: neither ends in the error of a
\* missing file.
C7_NeverReadsOneBlobWithoutTheOther ==
    \A w \in Workers :
        loc[w].op \in {"load_ml_classifier", "local_log_ai"} =>
            loc[w].error # "FileNotFoundError"

====
